---- MODULE Spec2Model ----
(***************************************************************************)
(* Model of the LangGraph poster generator (src/main.py, src/agents/*.py). *)
(*                                                                         *)
(* The shared AgentState dict is the variable `state`: a function whose    *)
(* domain is the set of keys present in the dict.  Strings that the code   *)
(* inspects (validator responses) are sequences of tokens; `x in y` is     *)
(* contiguous containment and str.upper() maps every token to upper case.  *)
(* An Optional value is a sequence of length 0 (None) or 1 (the value).    *)
(* File paths are pairs <<name, attempt index>>.                           *)
(***************************************************************************)
EXTENDS Integers, Sequences, FiniteSets, TLC

VARIABLES
    state,      \* the AgentState dict threaded through every node
    config,     \* the values of config.MAX_*_ATTEMPTS
    env,        \* which input files exist, whether the pipeline can be loaded
    pc,         \* the node (or router) the graph executes next
    route,      \* the value the last router evaluation returned
    error,      \* the exception that left app.invoke, if any
    runs,       \* how many times each node has executed
    first_text, \* the text generated on text attempt 1
    verdict,    \* the validation response the last step consumed, and its verdict
    verdicts,   \* the verdicts of the text validations of the run, in order
    pinned,     \* which best values were set by an attempt that passed
    written,    \* the paths of the files the run has written, in order
    output_text \* the text written to the final text file

vars ==
    <<state, config, env, pc, route, error, runs, first_text, verdict, verdicts, pinned,
      written, output_text>>

(***************************************************************************)
(* Bounds of the model.                                                    *)
(***************************************************************************)
MaxAttempts == 3      \* the configured maxima range over 1..MaxAttempts
NumTexts == 1         \* distinct non-empty texts the generation service may return
MaxCount == 4         \* attempt counts the routers are evaluated on: 0..MaxCount
MaxResponseLen == 3   \* tokens of a validator response handed to the parsers

\* Counters stop here in the model; the code never gets near it (CapNotReached).
CounterCap == MaxAttempts + 2

(***************************************************************************)
(* Python values.                                                          *)
(***************************************************************************)
None == <<>>
Some(x) == <<x>>
IsNone(o) == o = <<>>
Val(o) == o[1]

\* dict.get(key, default) and dict[key] = value
Get(s, k, d) == IF k \in DOMAIN s THEN s[k] ELSE d
Set(s, k, v) == [x \in (DOMAIN s) \cup {k} |-> IF x = k THEN v ELSE s[x]]

\* bool(x) of an Optional[str]: None and "" are falsy
Truthy(o) == ~IsNone(o) /\ Val(o) # <<>>

\* `a or b` on Optional[str] values
Or(a, b) == IF Truthy(a) THEN a ELSE b

UpperTok(t) ==
    CASE t = "validation:" -> "VALIDATION:"
      [] t = "pass" -> "PASS"
      [] t = "fail" -> "FAIL"
      [] t = "approved" -> "APPROVED"
      [] t = "logo_integrated:" -> "LOGO_INTEGRATED:"
      [] t = "yes" -> "YES"
      [] t = "text_correct:" -> "TEXT_CORRECT:"
      [] t = "text_clear:" -> "TEXT_CLEAR:"
      [] t = "found_text:" -> "FOUND_TEXT:"
      [] t = "specific_fix:" -> "SPECIFIC_FIX:"
      [] OTHER -> t

\* str.upper()
upper(s) == [i \in 1..Len(s) |-> UpperTok(s[i])]

\* `pat in s`
Contains(s, pat) ==
    \E i \in 0..(Len(s) - Len(pat)) : SubSeq(s, i + 1, i + Len(pat)) = pat

\* The position of the first occurrence of token t in s, 0 if there is none.
IndexOf(s, t) ==
    IF \E i \in 1..Len(s) : s[i] = t
    THEN CHOOSE i \in 1..Len(s) : s[i] = t /\ \A j \in 1..(i - 1) : s[j] # t
    ELSE 0

\* s.split(t)[0]
SplitHead(s, t) == IF IndexOf(s, t) = 0 THEN s ELSE SubSeq(s, 1, IndexOf(s, t) - 1)

\* s.split(t)[1], for an s that holds t
SplitSecond(s, t) == SplitHead(SubSeq(s, IndexOf(s, t) + 1, Len(s)), t)

Whitespace == {" ", "\n"}

\* str.strip()
strip(s) ==
    LET keep == {i \in 1..Len(s) : s[i] \notin Whitespace}
    IN IF keep = {} THEN <<>>
       ELSE SubSeq(s, CHOOSE i \in keep : \A j \in keep : i <= j,
                      CHOOSE i \in keep : \A j \in keep : j <= i)

Path(name, n) == <<name, n>>

INPUT_IMAGE_PATH == Path("input.png", 0)
INPUT_TEXT == <<"keywords">>
PLAN == <<"plan">>

VALIDATION_PASS == <<"VALIDATION:", "PASS">>
VALIDATION_APPROVED == <<"VALIDATION:", "APPROVED">>
LOGO_INTEGRATED_YES == <<"LOGO_INTEGRATED:", "YES">>
TEXT_CORRECT_YES == <<"TEXT_CORRECT:", "YES">>
TEXT_CLEAR_YES == <<"TEXT_CLEAR:", "YES">>
VALIDATION_ERROR == <<"Validation failed due to error:", "error">>
REMEDIATION == <<"IMPORTANT: Logo not properly integrated. Must revert to input.png as base.">>

(***************************************************************************)
(* What the collaborators may answer.                                      *)
(***************************************************************************)
Words == <<"alpha", "beta", "gamma", "delta">>
\* message.content of the generation call: a labelled text, or the empty string.
Texts == {<<>>} \cup {<<"HEADLINE:", Words[i]>> : i \in 1..NumTexts}

TextResponses ==
    { <<>>,
      <<"VALIDATION:", "PASS">>,
      <<"validation:", "pass", "FEEDBACK:", "fine">>,
      <<"VALIDATION:", "FAIL", "FEEDBACK:", "shorten">>,
      <<"FEEDBACK:", "shorten">> }

ImageResponses ==
    { <<>>,
      <<"VALIDATION:", "PASS", "LOGO_INTEGRATED:", "YES">>,
      <<"VALIDATION:", "PASS", "LOGO_INTEGRATED:", "NO">>,
      <<"validation:", "pass">>,
      <<"VALIDATION:", "FAIL", "LOGO_INTEGRATED:", "YES">>,
      <<"VALIDATION:", "FAIL", "LOGO_INTEGRATED:", "NO">> }

OverlayResponses ==
    { <<>>,
      <<"TEXT_CORRECT:", "YES", "TEXT_CLEAR:", "YES", "FOUND_TEXT:", "alpha",
        "SPECIFIC_FIX:", "none", "VALIDATION:", "APPROVED">>,
      <<"TEXT_CORRECT:", "NO", "TEXT_CLEAR:", "YES", "FOUND_TEXT:", "alpa",
        "SPECIFIC_FIX:", "change", "VALIDATION:", "REJECTED">>,
      <<"TEXT_CORRECT:", "NO", "TEXT_CLEAR:", "NO", "VALIDATION:", "APPROVED">>,
      <<"validation:", "approved", "SPECIFIC_FIX:", " ", "sharpen", "\n">>,
      <<"VALIDATION:", "REJECTED", "FOUND_TEXT:", "alpa", "SPECIFIC_FIX:", "change">> }

\* A collaborator call returns a content or raises.
Returned(c) == [raised |-> FALSE, content |-> c]
Raised == [raised |-> TRUE, content |-> <<>>]
Outcomes(S) == {Returned(c) : c \in S} \cup {Raised}

\* What a node hands back to the graph: the dict, and whether it raised.
Ok(s) == [state |-> s, raised |-> FALSE]
Raise(s) == [state |-> s, raised |-> TRUE]

(***************************************************************************)
(* main(): the dict app.invoke starts from.                                *)
(***************************************************************************)
initial_state ==
    [ input_text |-> <<>>,
      input_image_path |-> <<>>,
      image_pipeline |-> None,
      planning_output |-> None,
      generated_text |-> None,
      text_attempt_count |-> 0,
      best_text |-> None,
      current_image |-> None,
      image_attempt_count |-> 0,
      best_image |-> None,
      validation_feedback |-> None,
      validation_passed |-> FALSE,
      poster_with_text |-> None,
      final_poster_path |-> None,
      final_text_path |-> None ]

(***************************************************************************)
(* The nodes, as functions of the dict and of what their collaborator      *)
(* answers.                                                                *)
(***************************************************************************)
\* Mutant: a failed initialisation leaves the node as an exception.
load_pipeline_raises(s, loads) ==
    IF loads THEN Ok(Set(s, "image_pipeline", Some("pipeline")))
    ELSE Raise(s)

load_pipeline(s, loads) ==
    IF loads THEN Ok(Set(s, "image_pipeline", Some("pipeline")))
    ELSE Ok(Set(s, "image_pipeline", None))

load_input(s, e) ==
    IF ~e.text_exists THEN Raise(s)
    ELSE IF ~e.image_exists THEN Raise(s)
    ELSE LET s1 == Set(s, "input_text", INPUT_TEXT)
             s2 == Set(s1, "input_image_path", INPUT_IMAGE_PATH)
             s3 == Set(s2, "text_attempt_count", 0)
             s4 == Set(s3, "image_attempt_count", 0)
         IN Ok(Set(s4, "validation_passed", FALSE))

planning_agent(s, out) ==
    IF out.raised THEN Raise(s)
    ELSE Ok(Set(s, "planning_output", Some(out.content)))

\* Mutant: every attempt overwrites best_text.
text_generation_agent_overwrites_best(s, out) ==
    LET s1 == Set(s, "text_attempt_count", s.text_attempt_count + 1)
    IN IF out.raised THEN Raise(s1)
       ELSE Ok(Set(Set(s1, "generated_text", Some(out.content)),
                   "best_text", Some(out.content)))

\* Mutant: the prompt never carries the feedback of the previous attempt.
text_prompt_without_feedback(s) == <<>>

\* The feedback text_generation_agent puts in its prompt, none as <<>>; s is
\* the dict once the attempt is counted.
text_prompt(s) ==
    LET attempt_num == s.text_attempt_count
    IN IF Truthy(Get(s, "validation_feedback", None)) /\ attempt_num > 1
       THEN Val(s.validation_feedback)
       ELSE <<>>

\* Mutant: the attempts are written to one file name, without a number.
text_path_unnumbered(s) == Path("text_attempt", 0)

\* The file text_generation_agent writes the generated text to; s is the dict
\* once the attempt is counted.
text_path(s) ==
    LET attempt_num == s.text_attempt_count
    IN Path("text_attempt", attempt_num)

\* Mutant: a failed generation call is swallowed and the attempt goes on.
text_generation_agent_swallows(s, out) ==
    LET s1 == Set(s, "text_attempt_count", s.text_attempt_count + 1)
    IN IF out.raised THEN Ok(s1)
       ELSE LET s2 == Set(s1, "generated_text", Some(out.content))
            IN IF IsNone(Get(s2, "best_text", None))
               THEN Ok(Set(s2, "best_text", Some(out.content)))
               ELSE Ok(s2)

text_generation_agent(s, out) ==
    LET s0 == IF "text_attempt_count" \notin DOMAIN s
              THEN Set(s, "text_attempt_count", 0) ELSE s
        s1 == Set(s0, "text_attempt_count", s0.text_attempt_count + 1)
    IN IF out.raised THEN Raise(s1)
       ELSE LET s2 == Set(s1, "generated_text", Some(out.content))
            IN IF IsNone(Get(s2, "best_text", None))
               THEN Ok(Set(s2, "best_text", Some(out.content)))
               ELSE Ok(s2)

\* Mutant: a failed validation starts the count of attempts again.
validate_text_resets_count(s, out) ==
    IF out.raised THEN Raise(s)
    ELSE LET s1 == Set(s, "validation_feedback", Some(out.content))
             validation_passed == Contains(upper(out.content), VALIDATION_PASS)
             s2 == Set(s1, "validation_passed", validation_passed)
         IN IF validation_passed
            THEN Ok(Set(s2, "best_text", s2.generated_text))
            ELSE Ok(Set(s2, "text_attempt_count", 0))

\* Mutant: best_text follows the latest attempt whatever the verdict.
validate_text_always_best(s, out) ==
    IF out.raised THEN Raise(s)
    ELSE LET s1 == Set(s, "validation_feedback", Some(out.content))
             s2 == Set(s1, "validation_passed",
                       Contains(upper(out.content), VALIDATION_PASS))
         IN Ok(Set(s2, "best_text", s2.generated_text))

\* Mutant: the word PASS alone counts as a pass.
validate_text_bare_pass(s, out) ==
    IF out.raised THEN Raise(s)
    ELSE LET s1 == Set(s, "validation_feedback", Some(out.content))
             validation_passed == Contains(upper(out.content), <<"PASS">>)
             s2 == Set(s1, "validation_passed", validation_passed)
         IN IF validation_passed
            THEN Ok(Set(s2, "best_text", s2.generated_text))
            ELSE Ok(s2)

validate_text(s, out) ==
    IF out.raised THEN Raise(s)
    ELSE LET s1 == Set(s, "validation_feedback", Some(out.content))
             validation_passed == Contains(upper(out.content), VALIDATION_PASS)
             s2 == Set(s1, "validation_passed", validation_passed)
         IN IF validation_passed
            THEN Ok(Set(s2, "best_text", s2.generated_text))
            ELSE Ok(s2)

\* Mutant: the bound is compared with > instead of >=.
should_retry_text_off_by_one(s, cfg) ==
    IF Get(s, "validation_passed", FALSE) THEN "continue"
    ELSE IF s.text_attempt_count > cfg.MAX_TEXT_ATTEMPTS THEN "continue"
    ELSE "retry"

\* Mutant: one attempt more is allowed before giving up.
should_retry_text_one_more(s, cfg) ==
    IF Get(s, "validation_passed", FALSE) THEN "continue"
    ELSE IF s.text_attempt_count >= cfg.MAX_TEXT_ATTEMPTS + 1 THEN "continue"
    ELSE "retry"

\* Mutant: a passed validation does not end the loop.
should_retry_text_ignores_pass(s, cfg) ==
    IF s.text_attempt_count >= cfg.MAX_TEXT_ATTEMPTS THEN "continue"
    ELSE "retry"

should_retry_text(s, cfg) ==
    IF Get(s, "validation_passed", FALSE) THEN "continue"
    ELSE IF s.text_attempt_count >= cfg.MAX_TEXT_ATTEMPTS THEN "continue"
    ELSE "retry"

\* agents/image_generation_agent.py is not among the sources: one attempt is
\* counted per execution, and without a pipeline the base image is reused.
image_generation_agent(s, out) ==
    LET s1 == Set(s, "image_attempt_count", s.image_attempt_count + 1)
    IN IF IsNone(s1.image_pipeline)
       THEN Ok(Set(s1, "current_image", Some(s1.input_image_path)))
       ELSE IF out.raised THEN Raise(s1)
       ELSE Ok(Set(s1, "current_image",
                   Some(Path("image_attempt", s1.image_attempt_count))))

\* Mutant: the feedback of an attempt is added to the feedback already stored.
editor_agent_accumulates(s, out) ==
    IF out.raised THEN Raise(s)
    ELSE LET earlier == IF IsNone(Get(s, "validation_feedback", None)) THEN <<>>
                        ELSE Val(s.validation_feedback)
             s1 == Set(s, "validation_feedback", Some(earlier \o out.content))
             validation_passed == Contains(upper(out.content), VALIDATION_PASS)
             s2 == Set(s1, "validation_passed", validation_passed)
             logo_integrated == Contains(upper(out.content), LOGO_INTEGRATED_YES)
             s3 == IF validation_passed \/ IsNone(Get(s2, "best_image", None))
                   THEN Set(s2, "best_image", s2.current_image)
                   ELSE s2
         IN IF ~logo_integrated
            THEN Ok(Set(s3, "validation_feedback",
                        Some(Val(s3.validation_feedback) \o REMEDIATION)))
            ELSE Ok(s3)

\* Mutant: the flag is raised on a pass and otherwise left as it was.
editor_agent_only_raises_flag(s, out) ==
    IF out.raised THEN Raise(s)
    ELSE LET s1 == Set(s, "validation_feedback", Some(out.content))
             validation_passed == Contains(upper(out.content), VALIDATION_PASS)
             s2 == IF validation_passed THEN Set(s1, "validation_passed", TRUE) ELSE s1
             logo_integrated == Contains(upper(out.content), LOGO_INTEGRATED_YES)
             s3 == IF validation_passed \/ IsNone(Get(s2, "best_image", None))
                   THEN Set(s2, "best_image", s2.current_image)
                   ELSE s2
         IN IF ~logo_integrated
            THEN Ok(Set(s3, "validation_feedback",
                        Some(Val(s3.validation_feedback) \o REMEDIATION)))
            ELSE Ok(s3)

\* Mutant: best_image follows the latest attempt whatever the verdict.
editor_agent_always_best(s, out) ==
    IF out.raised THEN Raise(s)
    ELSE LET s1 == Set(s, "validation_feedback", Some(out.content))
             validation_passed == Contains(upper(out.content), VALIDATION_PASS)
             s2 == Set(s1, "validation_passed", validation_passed)
             logo_integrated == Contains(upper(out.content), LOGO_INTEGRATED_YES)
             s3 == Set(s2, "best_image", s2.current_image)
         IN IF ~logo_integrated
            THEN Ok(Set(s3, "validation_feedback",
                        Some(Val(s3.validation_feedback) \o REMEDIATION)))
            ELSE Ok(s3)

editor_agent(s, out) ==
    IF out.raised THEN Raise(s)
    ELSE LET s1 == Set(s, "validation_feedback", Some(out.content))
             validation_passed == Contains(upper(out.content), VALIDATION_PASS)
             s2 == Set(s1, "validation_passed", validation_passed)
             logo_integrated == Contains(upper(out.content), LOGO_INTEGRATED_YES)
             s3 == IF validation_passed \/ IsNone(Get(s2, "best_image", None))
                   THEN Set(s2, "best_image", s2.current_image)
                   ELSE s2
         IN IF ~logo_integrated
            THEN Ok(Set(s3, "validation_feedback",
                        Some(Val(s3.validation_feedback) \o REMEDIATION)))
            ELSE Ok(s3)

\* Mutant: the attempts are not bounded.
should_retry_image_unbounded(s, cfg) ==
    IF Get(s, "validation_passed", FALSE) THEN "continue"
    ELSE "retry"

should_retry_image(s, cfg) ==
    IF Get(s, "validation_passed", FALSE) THEN "continue"
    ELSE IF s.image_attempt_count >= cfg.MAX_IMAGE_ATTEMPTS THEN "continue"
    ELSE "retry"

\* Mutant: the stage hands the best image on as the current one.
segmentation_placeholder_selects_best(s) ==
    Ok(Set(s, "current_image", Get(s, "best_image", None)))

segmentation_placeholder(s) == Ok(s)

\* agents/text_adding_agent.py is not among the sources: one overlay attempt is
\* counted per execution and the rendered poster is stored.
text_adding_agent(s, out) ==
    LET n == Get(s, "text_adding_attempt_count", 0) + 1
        s1 == Set(s, "text_adding_attempt_count", n)
    IN IF out.raised THEN Raise(s1)
       ELSE Ok(Set(s1, "poster_with_text", Some(Path("poster_with_text", n))))

\* Mutant: the exception path records the rejection and leaves the parsed
\* sub-fields as they were.
text_validation_agent_keeps_fields(s, out) ==
    IF IsNone(Get(s, "poster_with_text", None)) THEN Raise(s)
    ELSE IF out.raised
    THEN Ok(Set(Set(s, "text_validation_result", "rejected"),
                "text_validation_feedback", Some(VALIDATION_ERROR)))
    ELSE LET validation_result == out.content
             found_text_section == SplitSecond(validation_result, "FOUND_TEXT:")
             found_text ==
                 IF ~Contains(validation_result, <<"FOUND_TEXT:">>) THEN None
                 ELSE IF Contains(found_text_section, <<"SPECIFIC_FIX:">>)
                 THEN Some(strip(SplitHead(found_text_section, "SPECIFIC_FIX:")))
                 ELSE IF Contains(found_text_section, <<"VALIDATION:">>)
                 THEN Some(strip(SplitHead(found_text_section, "VALIDATION:")))
                 ELSE Some(strip(found_text_section))
             specific_fix_section == SplitSecond(validation_result, "SPECIFIC_FIX:")
             specific_fix ==
                 IF ~Contains(validation_result, <<"SPECIFIC_FIX:">>) THEN None
                 ELSE IF Contains(specific_fix_section, <<"VALIDATION:">>)
                 THEN Some(strip(SplitHead(specific_fix_section, "VALIDATION:")))
                 ELSE Some(strip(specific_fix_section))
             s1 == Set(s, "text_validation_result",
                       IF Contains(upper(validation_result), VALIDATION_APPROVED)
                       THEN "approved" ELSE "rejected")
             s2 == Set(s1, "text_validation_feedback", Some(validation_result))
             s3 == Set(s2, "text_is_correct",
                       Contains(upper(validation_result), TEXT_CORRECT_YES))
             s4 == Set(s3, "text_is_clear",
                       Contains(upper(validation_result), TEXT_CLEAR_YES))
             s5 == Set(s4, "found_text", found_text)
         IN Ok(Set(s5, "specific_fix", specific_fix))

\* agents/text_validation_agent.py: the poster is read before the try block,
\* the collaborator call and the parsing are inside it.
text_validation_agent(s, out) ==
    IF IsNone(Get(s, "poster_with_text", None)) THEN Raise(s)
    ELSE IF out.raised
    THEN LET s1 == Set(s, "text_validation_result", "rejected")
             s2 == Set(s1, "text_validation_feedback", Some(VALIDATION_ERROR))
             s3 == Set(s2, "text_is_correct", FALSE)
             s4 == Set(s3, "text_is_clear", FALSE)
             s5 == Set(s4, "found_text", None)
         IN Ok(Set(s5, "specific_fix", None))
    ELSE LET validation_result == out.content
             validation_approved == Contains(upper(validation_result), VALIDATION_APPROVED)
             text_is_correct == Contains(upper(validation_result), TEXT_CORRECT_YES)
             text_is_clear == Contains(upper(validation_result), TEXT_CLEAR_YES)
             found_text_section == SplitSecond(validation_result, "FOUND_TEXT:")
             found_text ==
                 IF ~Contains(validation_result, <<"FOUND_TEXT:">>) THEN None
                 ELSE IF Contains(found_text_section, <<"SPECIFIC_FIX:">>)
                 THEN Some(strip(SplitHead(found_text_section, "SPECIFIC_FIX:")))
                 ELSE IF Contains(found_text_section, <<"VALIDATION:">>)
                 THEN Some(strip(SplitHead(found_text_section, "VALIDATION:")))
                 ELSE Some(strip(found_text_section))
             specific_fix_section == SplitSecond(validation_result, "SPECIFIC_FIX:")
             specific_fix ==
                 IF ~Contains(validation_result, <<"SPECIFIC_FIX:">>) THEN None
                 ELSE IF Contains(specific_fix_section, <<"VALIDATION:">>)
                 THEN Some(strip(SplitHead(specific_fix_section, "VALIDATION:")))
                 ELSE Some(strip(specific_fix_section))
             s1 == Set(s, "text_validation_result",
                       IF validation_approved THEN "approved" ELSE "rejected")
             s2 == Set(s1, "text_validation_feedback", Some(validation_result))
             s3 == Set(s2, "text_is_correct", text_is_correct)
             s4 == Set(s3, "text_is_clear", text_is_clear)
             s5 == Set(s4, "found_text", found_text)
         IN Ok(Set(s5, "specific_fix", specific_fix))

\* Mutant: an approval counts only when the text was also found correct.
should_retry_text_adding_needs_correct(s, cfg) ==
    LET attempt_count == Get(s, "text_adding_attempt_count", 0)
        validation_result == Get(s, "text_validation_result", "rejected")
    IN IF validation_result = "approved" /\ Get(s, "text_is_correct", FALSE)
       THEN "continue"
       ELSE IF attempt_count < cfg.MAX_TEXT_ADDING_ATTEMPTS THEN "retry"
       ELSE "continue"

should_retry_text_adding(s, cfg) ==
    LET attempt_count == Get(s, "text_adding_attempt_count", 0)
        validation_result == Get(s, "text_validation_result", "rejected")
    IN IF validation_result = "approved" THEN "continue"
       ELSE IF attempt_count < cfg.MAX_TEXT_ADDING_ATTEMPTS THEN "retry"
       ELSE "continue"

\* The dict as each router leaves it: the bodies only read it (state.get,
\* state[...]) and print.
should_retry_text_state(s, cfg) == s

should_retry_image_state(s, cfg) == s

\* Mutant: the router reads the count with setdefault, which stores the default.
should_retry_text_adding_setdefault(s, cfg) ==
    Set(s, "text_adding_attempt_count", Get(s, "text_adding_attempt_count", 0))

should_retry_text_adding_state(s, cfg) == s

\* The text save_output writes to outputs/text.txt.
final_text(s) == Or(Get(s, "best_text", None), Get(s, "generated_text", None))

save_output(s) ==
    LET poster == Get(s, "poster_with_text", None)
        poster_source == IF IsNone(poster)
                         THEN Or(Get(s, "best_image", None), Get(s, "current_image", None))
                         ELSE poster
    IN IF IsNone(poster_source) THEN Raise(s)
       ELSE LET s1 == Set(s, "final_poster_path", Some(Path("outputs/poster.png", 0)))
            IN IF IsNone(final_text(s)) THEN Raise(s1)
               ELSE Ok(Set(s1, "final_text_path", Some(Path("outputs/text.txt", 0))))

(***************************************************************************)
(* build_graph(): entry point, edges, conditional edges.                   *)
(***************************************************************************)
EntryPoint == "load_pipeline"

Nodes ==
    { "load_pipeline", "load_input", "planning", "text_generation",
      "text_validation", "image_generation", "image_validation",
      "segmentation", "text_adding", "save_output" }

Edge ==
    [ load_pipeline |-> "load_input",
      load_input |-> "planning",
      planning |-> "text_generation",
      text_generation |-> "text_validation",
      image_generation |-> "image_validation",
      segmentation |-> "text_adding",
      text_adding |-> "save_output",
      save_output |-> "END" ]

\* add_conditional_edges(node, router, {label: target})
ConditionalEdge ==
    [ text_validation |->
          [ router |-> "should_retry_text",
            retry |-> "text_generation", continue |-> "image_generation" ],
      image_validation |->
          [ router |-> "should_retry_image",
            retry |-> "image_generation", continue |-> "segmentation" ] ]

\* Every stage function of the repository: the nodes, and the overlay
\* validation of agents/text_validation_agent.py, which build_graph does not add.
Stages == Nodes \cup {"overlay_validation"}

\* Where the graph goes once `node` has returned.
After(node) ==
    IF node \in DOMAIN ConditionalEdge THEN ConditionalEdge[node].router
    ELSE Edge[node]

\* Mutant: the two labels of a conditional edge lead to each other's target.
Target_swapped(node, label) ==
    IF label = "retry" THEN ConditionalEdge[node].continue
    ELSE ConditionalEdge[node].retry

Target(node, label) ==
    IF label = "retry" THEN ConditionalEdge[node].retry
    ELSE ConditionalEdge[node].continue

NoRoute == [router |-> "none", ret |-> "none"]
NoError == [stage |-> "none"]
NoVerdict == [stage |-> "none", passed |-> FALSE, content |-> <<>>]

\* A collaborator failure the last step met: no response, no verdict.
Failure(what) == [stage |-> what, passed |-> FALSE, content |-> <<>>]

\* The feedback a text generation put in its prompt.
Prompted(s) == [stage |-> "text_generation", passed |-> FALSE, content |-> text_prompt(s)]

\* Whether a validator response carries the pass marker, in any letter case.
HasPassMarker(content) == Contains(upper(content), VALIDATION_PASS)

Verdict(node, out) ==
    IF out.raised THEN NoVerdict
    ELSE [stage |-> node, passed |-> HasPassMarker(out.content),
          content |-> out.content]

\* One execution of `node` that hands back r, having consumed a validator
\* response of verdict v; the caller goes to `next` unless the node raised.
Apply(node, r, v, next) ==
    /\ state' = r.state
    /\ runs' = [runs EXCEPT ![node] = @ + 1]
    /\ route' = NoRoute
    /\ verdict' = v
    /\ pinned' = [ text |-> pinned.text \/ (v.stage = "text_validation" /\ v.passed),
                   image |-> pinned.image \/ (v.stage = "image_validation" /\ v.passed) ]
    /\ pc' = IF r.raised THEN "aborted" ELSE next
    /\ error' = IF r.raised THEN [stage |-> node] ELSE error

\* One node execution by app.invoke: an exception leaves the graph and main
\* re-raises it.
Invoke(node, r, v) == Apply(node, r, v, After(node))

\* One router evaluation on the conditional edge leaving `node`.
Decide(node, ret, after) ==
    /\ route' = [router |-> ConditionalEdge[node].router, ret |-> ret]
    /\ pc' = Target(node, ret)
    /\ state' = after
    /\ verdict' = NoVerdict
    /\ UNCHANGED <<config, env, error, runs, first_text, verdicts, pinned,
                 written, output_text>>

Configs ==
    [ MAX_TEXT_ATTEMPTS : 1..MaxAttempts,
      MAX_IMAGE_ATTEMPTS : 1..MaxAttempts,
      MAX_TEXT_ADDING_ATTEMPTS : {MaxAttempts} ]

Envs == [text_exists : BOOLEAN, image_exists : BOOLEAN]

\* The observers of a run that has not started.
Fresh ==
    /\ route = NoRoute
    /\ error = NoError
    /\ runs = [n \in Stages |-> 0]
    /\ first_text = None
    /\ verdict = NoVerdict
    /\ verdicts = <<>>
    /\ pinned = [text |-> FALSE, image |-> FALSE]
    /\ written = <<>>
    /\ output_text = None

Init ==
    /\ state = initial_state
    /\ config \in Configs
    /\ env \in Envs
    /\ pc = EntryPoint
    /\ Fresh

RunLoadPipeline ==
    /\ pc = "load_pipeline"
    /\ \E loads \in BOOLEAN :
          Invoke("load_pipeline", load_pipeline(state, loads),
                 IF loads THEN NoVerdict ELSE Failure("load_pipeline failed"))
    /\ UNCHANGED <<config, env, first_text, verdicts, written, output_text>>

RunLoadInput ==
    /\ pc = "load_input"
    /\ Invoke("load_input", load_input(state, env), NoVerdict)
    /\ UNCHANGED <<config, env, first_text, verdicts, written, output_text>>

RunPlanning ==
    /\ pc = "planning"
    /\ \E out \in Outcomes({PLAN}) :
          Invoke("planning", planning_agent(state, out), NoVerdict)
    /\ UNCHANGED <<config, env, first_text, verdicts, written, output_text>>

RunTextGeneration ==
    /\ pc = "text_generation"
    /\ state.text_attempt_count < CounterCap
    /\ \E out \in Outcomes(Texts) :
          /\ Invoke("text_generation", text_generation_agent(state, out),
                    IF out.raised THEN Failure("text_generation raised")
                    ELSE Prompted(text_generation_agent(state, out).state))
          /\ first_text' = IF runs["text_generation"] = 0 /\ ~out.raised
                           THEN Some(out.content) ELSE first_text
          /\ written' = IF out.raised THEN written
                        ELSE Append(written,
                                    text_path(text_generation_agent(state, out).state))
    /\ UNCHANGED <<config, env, verdicts, output_text>>

RunTextValidation ==
    /\ pc = "text_validation"
    /\ \E out \in Outcomes(TextResponses) :
          /\ Invoke("text_validation", validate_text(state, out),
                    Verdict("text_validation", out))
          /\ verdicts' = IF out.raised THEN verdicts
                         ELSE Append(verdicts, HasPassMarker(out.content))
    /\ UNCHANGED <<config, env, first_text, written, output_text>>

RouteText ==
    /\ pc = "should_retry_text"
    /\ Decide("text_validation", should_retry_text(state, config),
              should_retry_text_state(state, config))

RunImageGeneration ==
    /\ pc = "image_generation"
    /\ state.image_attempt_count < CounterCap
    /\ \E out \in Outcomes({<<>>}) :
          Invoke("image_generation", image_generation_agent(state, out), NoVerdict)
    /\ UNCHANGED <<config, env, first_text, verdicts, written, output_text>>

RunImageValidation ==
    /\ pc = "image_validation"
    /\ \E out \in Outcomes(ImageResponses) :
          Invoke("image_validation", editor_agent(state, out),
                 Verdict("image_validation", out))
    /\ UNCHANGED <<config, env, first_text, verdicts, written, output_text>>

RouteImage ==
    /\ pc = "should_retry_image"
    /\ Decide("image_validation", should_retry_image(state, config),
              should_retry_image_state(state, config))

RunSegmentation ==
    /\ pc = "segmentation"
    /\ Invoke("segmentation", segmentation_placeholder(state), NoVerdict)
    /\ UNCHANGED <<config, env, first_text, verdicts, written, output_text>>

RunTextAdding ==
    /\ pc = "text_adding"
    /\ \E out \in Outcomes({<<>>}) :
          Invoke("text_adding", text_adding_agent(state, out), NoVerdict)
    /\ UNCHANGED <<config, env, first_text, verdicts, written, output_text>>

RunSaveOutput ==
    /\ pc = "save_output"
    /\ Invoke("save_output", save_output(state), NoVerdict)
    /\ written' = IF save_output(state).raised THEN written
                  ELSE written \o <<Val(save_output(state).state.final_poster_path),
                                    Val(save_output(state).state.final_text_path)>>
    /\ output_text' = IF save_output(state).raised THEN output_text
                      ELSE final_text(state)
    /\ UNCHANGED <<config, env, first_text, verdicts>>

Next ==
    \/ RunLoadPipeline
    \/ RunLoadInput
    \/ RunPlanning
    \/ RunTextGeneration
    \/ RunTextValidation
    \/ RouteText
    \/ RunImageGeneration
    \/ RunImageValidation
    \/ RouteImage
    \/ RunSegmentation
    \/ RunTextAdding
    \/ RunSaveOutput

Spec == Init /\ [][Next]_vars

\* app.invoke runs the next node as soon as the previous one has returned.
FairSpec == Init /\ [][Next]_vars /\ WF_vars(Next)

\* The model's cap on the counters is never what stops a run.
CapNotReached ==
    /\ state.text_attempt_count <= MaxAttempts
    /\ state.image_attempt_count <= MaxAttempts

(***************************************************************************)
(* The routers on their own: one evaluation of one router on a dict whose  *)
(* counter, pass flag and maximum are arbitrary.                           *)
(***************************************************************************)
RouterConfig(which, m) ==
    [ MAX_TEXT_ATTEMPTS |-> IF which = "should_retry_text" THEN m ELSE MaxAttempts,
      MAX_IMAGE_ATTEMPTS |-> IF which = "should_retry_image" THEN m ELSE MaxAttempts,
      MAX_TEXT_ADDING_ATTEMPTS |->
          IF which = "should_retry_text_adding" THEN m ELSE MaxAttempts ]

\* The dicts should_retry_text_adding may be handed: each key present or not.
OverlayRouterStates ==
    { [k \in (DOMAIN initial_state) \cup present |->
          IF k = "text_adding_attempt_count" THEN c
          ELSE IF k = "text_validation_result" THEN res
          ELSE initial_state[k]] :
      present \in SUBSET {"text_adding_attempt_count", "text_validation_result"},
      c \in 0..MaxCount,
      res \in {"approved", "rejected"} }

RouterInit ==
    /\ env = [text_exists |-> TRUE, image_exists |-> TRUE]
    /\ Fresh
    /\ \E m \in 1..MaxAttempts :
          \/ /\ pc = "call should_retry_text"
             /\ config = RouterConfig("should_retry_text", m)
             /\ \E c \in 0..MaxCount, p \in BOOLEAN :
                   state = [initial_state EXCEPT !.text_attempt_count = c,
                                                 !.validation_passed = p]
          \/ /\ pc = "call should_retry_image"
             /\ config = RouterConfig("should_retry_image", m)
             /\ \E c \in 0..MaxCount, p \in BOOLEAN :
                   state = [initial_state EXCEPT !.image_attempt_count = c,
                                                 !.validation_passed = p]
          \/ /\ pc = "call should_retry_text_adding"
             /\ config = RouterConfig("should_retry_text_adding", m)
             /\ state \in OverlayRouterStates

Return(router, ret, after) ==
    /\ route' = [router |-> router, ret |-> ret]
    /\ pc' = "returned"
    /\ state' = after
    /\ UNCHANGED <<config, env, error, runs, first_text, verdict, verdicts, pinned,
                 written, output_text>>

CallShouldRetryText ==
    /\ pc = "call should_retry_text"
    /\ Return("should_retry_text", should_retry_text(state, config),
              should_retry_text_state(state, config))

CallShouldRetryImage ==
    /\ pc = "call should_retry_image"
    /\ Return("should_retry_image", should_retry_image(state, config),
              should_retry_image_state(state, config))

CallShouldRetryTextAdding ==
    /\ pc = "call should_retry_text_adding"
    /\ Return("should_retry_text_adding", should_retry_text_adding(state, config),
              should_retry_text_adding_state(state, config))

RouterNext ==
    \/ CallShouldRetryText
    \/ CallShouldRetryImage
    \/ CallShouldRetryTextAdding

RouterSpec == RouterInit /\ [][RouterNext]_vars

(***************************************************************************)
(* The attempts of the two loops on their own: the stages of an attempt    *)
(* called again and again whatever the verdicts were, as a caller other    *)
(* than the graph's routers could.                                         *)
(***************************************************************************)
planned_state ==
    planning_agent(
        load_input(load_pipeline(initial_state, TRUE).state,
                   [text_exists |-> TRUE, image_exists |-> TRUE]).state,
        Returned(PLAN)).state

AttemptsInit ==
    /\ state = planned_state
    /\ config = RouterConfig("none", MaxAttempts)
    /\ env = [text_exists |-> TRUE, image_exists |-> TRUE]
    /\ pc = "attempt"
    /\ Fresh

AttemptTextGeneration ==
    /\ pc = "attempt"
    /\ state.text_attempt_count < MaxAttempts
    /\ \E c \in Texts :
          /\ Apply("text_generation", text_generation_agent(state, Returned(c)),
                   Prompted(text_generation_agent(state, Returned(c)).state),
                   "attempt text_validation")
          /\ first_text' = IF runs["text_generation"] = 0 THEN Some(c) ELSE first_text
          /\ written' = Append(written,
                               text_path(text_generation_agent(state, Returned(c)).state))
    /\ UNCHANGED <<config, env, verdicts, output_text>>

AttemptTextValidation ==
    /\ pc = "attempt text_validation"
    /\ \E c \in TextResponses :
          Apply("text_validation", validate_text(state, Returned(c)),
                Verdict("text_validation", Returned(c)), "attempt")
    /\ UNCHANGED <<config, env, first_text, verdicts, written, output_text>>

AttemptImageGeneration ==
    /\ pc = "attempt"
    /\ state.image_attempt_count < MaxAttempts
    /\ Apply("image_generation", image_generation_agent(state, Returned(<<>>)),
             NoVerdict, "attempt image_validation")
    /\ UNCHANGED <<config, env, first_text, verdicts, written, output_text>>

AttemptImageValidation ==
    /\ pc = "attempt image_validation"
    /\ \E c \in ImageResponses :
          Apply("image_validation", editor_agent(state, Returned(c)),
                Verdict("image_validation", Returned(c)), "attempt")
    /\ UNCHANGED <<config, env, first_text, verdicts, written, output_text>>

AttemptsNext ==
    \/ AttemptTextGeneration
    \/ AttemptTextValidation
    \/ AttemptImageGeneration
    \/ AttemptImageValidation

AttemptsSpec == AttemptsInit /\ [][AttemptsNext]_vars

(***************************************************************************)
(* The overlay stages on their own, chained as should_retry_text_adding    *)
(* expects to be used: text_adding, then text_validation_agent, then the   *)
(* router, "retry" leading back to text_adding.  build_graph has no such   *)
(* edges; this is a harness around the two functions of                    *)
(* agents/text_validation_agent.py.                                        *)
(***************************************************************************)
imaged_state ==
    LET t1 == text_generation_agent(planned_state, Returned(<<"HEADLINE:", Words[1]>>)).state
        t2 == validate_text(t1, Returned(VALIDATION_PASS)).state
        i1 == image_generation_agent(t2, Returned(<<>>)).state
    IN editor_agent(i1, Returned(VALIDATION_PASS \o LOGO_INTEGRATED_YES)).state

OverlayInit ==
    /\ state = imaged_state
    /\ \E m \in 1..MaxAttempts : config = RouterConfig("should_retry_text_adding", m)
    /\ env = [text_exists |-> TRUE, image_exists |-> TRUE]
    /\ pc = "overlay text_adding"
    /\ Fresh

\* What the overlay validation consumed: the response and whether it approves.
OverlayVerdict(out) ==
    IF out.raised
    THEN Failure("overlay_validation raised")
    ELSE [stage |-> "overlay_validation",
          passed |-> Contains(upper(out.content), VALIDATION_APPROVED),
          content |-> out.content]

OverlayTextAdding ==
    /\ pc = "overlay text_adding"
    /\ Get(state, "text_adding_attempt_count", 0) < CounterCap
    /\ \E out \in Outcomes({<<>>}) :
          Apply("text_adding", text_adding_agent(state, out), NoVerdict,
                "overlay text_validation")
    /\ UNCHANGED <<config, env, first_text, verdicts, written, output_text>>

OverlayTextValidation ==
    /\ pc = "overlay text_validation"
    /\ \E out \in Outcomes(OverlayResponses) :
          Apply("overlay_validation", text_validation_agent(state, out),
                OverlayVerdict(out), "should_retry_text_adding")
    /\ UNCHANGED <<config, env, first_text, verdicts, written, output_text>>

OverlayRoute ==
    /\ pc = "should_retry_text_adding"
    /\ route' = [router |-> "should_retry_text_adding",
                 ret |-> should_retry_text_adding(state, config)]
    /\ pc' = IF should_retry_text_adding(state, config) = "retry"
             THEN "overlay text_adding" ELSE "overlay done"
    /\ state' = should_retry_text_adding_state(state, config)
    /\ verdict' = NoVerdict
    /\ UNCHANGED <<config, env, error, runs, first_text, verdicts, pinned,
                 written, output_text>>

OverlayNext ==
    \/ OverlayTextAdding
    \/ OverlayTextValidation
    \/ OverlayRoute

OverlaySpec == OverlayInit /\ [][OverlayNext]_vars

\* On its own, text_validation_agent turns a failed collaborator call into a
\* rejection, and the router then retries while attempts remain.
OverlayFailureRejected ==
    /\ verdict.stage = "overlay_validation raised" =>
           /\ pc = "should_retry_text_adding"
           /\ state.text_validation_result = "rejected"
           /\ ~state.text_is_correct /\ ~state.text_is_clear
           /\ IsNone(state.found_text) /\ IsNone(state.specific_fix)
    /\ (route.router = "should_retry_text_adding" /\ route.ret = "retry") =>
           state.text_adding_attempt_count < config.MAX_TEXT_ADDING_ATTEMPTS

(***************************************************************************)
(* The parsing of the three validation stages on its own: each stage is    *)
(* run once on a response made of any tokens, labelled or not.             *)
(***************************************************************************)
ParserTokens ==
    { "VALIDATION:", "PASS", "APPROVED", "YES", "FOUND_TEXT:", "SPECIFIC_FIX:",
      "found_text:", "prose" }

RECURSIVE SeqsUpTo(_, _)
SeqsUpTo(S, n) ==
    IF n = 0 THEN {<<>>}
    ELSE LET shorter == SeqsUpTo(S, n - 1)
         IN shorter \cup {Append(q, x) : q \in shorter, x \in S}

ParserResponses == SeqsUpTo(ParserTokens, MaxResponseLen)

\* The dict after the first overlay, not validated yet.
overlaid_state == text_adding_agent(imaged_state, Returned(<<>>)).state

\* A dict on which every validation result is already set: an approved overlay.
validated_state ==
    LET a1 == overlaid_state
    IN text_validation_agent(a1,
           Returned(<<"TEXT_CORRECT:", "YES", "TEXT_CLEAR:", "YES", "FOUND_TEXT:",
                      "alpha", "SPECIFIC_FIX:", "none", "VALIDATION:", "APPROVED">>)).state

ParserInit ==
    /\ state = validated_state
    /\ config = RouterConfig("none", MaxAttempts)
    /\ env = [text_exists |-> TRUE, image_exists |-> TRUE]
    /\ pc = "parse"
    /\ Fresh

ParseTextValidation ==
    /\ pc = "parse"
    /\ \E c \in ParserResponses :
          Apply("text_validation", validate_text(state, Returned(c)),
                Verdict("text_validation", Returned(c)), "parsed")
    /\ UNCHANGED <<config, env, first_text, verdicts, written, output_text>>

ParseImageValidation ==
    /\ pc = "parse"
    /\ \E c \in ParserResponses :
          Apply("image_validation", editor_agent(state, Returned(c)),
                Verdict("image_validation", Returned(c)), "parsed")
    /\ UNCHANGED <<config, env, first_text, verdicts, written, output_text>>

ParseOverlayValidation ==
    /\ pc = "parse"
    /\ \E out \in Outcomes(ParserResponses) :
          Apply("overlay_validation", text_validation_agent(state, out),
                OverlayVerdict(out), "parsed")
    /\ UNCHANGED <<config, env, first_text, verdicts, written, output_text>>

ParserNext ==
    \/ ParseTextValidation
    \/ ParseImageValidation
    \/ ParseOverlayValidation

ParserSpec == ParserInit /\ [][ParserNext]_vars

(***************************************************************************)
(* Properties.                                                             *)
(***************************************************************************)
RouterPassed ==
    IF route.router = "should_retry_text_adding"
    THEN "text_validation_result" \in DOMAIN state
         /\ state.text_validation_result = "approved"
    ELSE state.validation_passed

RouterCount ==
    CASE route.router = "should_retry_text" -> state.text_attempt_count
      [] route.router = "should_retry_image" -> state.image_attempt_count
      [] OTHER -> IF "text_adding_attempt_count" \in DOMAIN state
                  THEN state.text_adding_attempt_count ELSE 0

RouterMax ==
    CASE route.router = "should_retry_text" -> config.MAX_TEXT_ATTEMPTS
      [] route.router = "should_retry_image" -> config.MAX_IMAGE_ATTEMPTS
      [] OTHER -> config.MAX_TEXT_ADDING_ATTEMPTS

\* C1: each router returns "continue" exactly when the validation passed or the
\* attempt count has reached the maximum, "retry" otherwise, and nothing else,
\* for every count >= 0, maximum >= 1 and validation outcome.
C1_RouterTotal ==
    pc = "returned" =>
        /\ route.ret \in {"continue", "retry"}
        /\ route.ret = "continue" <=> (RouterPassed \/ RouterCount >= RouterMax)

\* A router gave up on a failed attempt exactly at the maximum.
C1_Witness ==
    /\ pc = "returned"
    /\ route.router = "should_retry_text"
    /\ route.ret = "continue"
    /\ ~state.validation_passed
    /\ state.text_attempt_count = config.MAX_TEXT_ATTEMPTS

\* C2: whenever should_retry_text returns "continue", 1 <= text_attempt_count
\* <= MAX_TEXT_ATTEMPTS; whenever should_retry_image returns "continue",
\* 1 <= image_attempt_count <= MAX_IMAGE_ATTEMPTS (image generation counting one
\* attempt per execution).
C2_CountWithinMax ==
    /\ (route.router = "should_retry_text" /\ route.ret = "continue") =>
           /\ 1 <= state.text_attempt_count
           /\ state.text_attempt_count <= config.MAX_TEXT_ATTEMPTS
    /\ (route.router = "should_retry_image" /\ route.ret = "continue") =>
           /\ 1 <= state.image_attempt_count
           /\ state.image_attempt_count <= config.MAX_IMAGE_ATTEMPTS

\* The text loop left after its last allowed attempt failed.
C2_Witness ==
    /\ route.router = "should_retry_text"
    /\ route.ret = "continue"
    /\ ~state.validation_passed
    /\ config.MAX_TEXT_ATTEMPTS = MaxAttempts
    /\ state.text_attempt_count = MaxAttempts

\* C3: once an attempt that passed validation has set best_text (best_image),
\* no step other than a text (image) validation that passed changes it: a
\* later attempt whose validation failed leaves it alone.
C3_NonDowngrade ==
    [][ /\ (pinned.text /\ ~(verdict'.stage = "text_validation" /\ verdict'.passed))
               => state'.best_text = state.best_text
        /\ (pinned.image /\ ~(verdict'.stage = "image_validation" /\ verdict'.passed))
               => state'.best_image = state.best_image ]_vars

\* A text attempt failed after an earlier one had passed, with another text.
C3_Witness ==
    /\ pinned.text
    /\ verdict.stage = "text_validation"
    /\ ~verdict.passed
    /\ state.best_text # state.generated_text

TextLoopLeft ==
    \/ route.router = "should_retry_text" /\ route.ret = "continue"
    \/ runs["image_generation"] > 0

NeverPassed == \A i \in 1..Len(verdicts) : ~verdicts[i]

\* C4: if no text validation response carried the pass marker, the text loop is
\* left after exactly MAX_TEXT_ATTEMPTS executions of text_generation, and
\* best_text is the text of attempt 1.
C4_ExhaustedKeepsFirstText ==
    (TextLoopLeft /\ NeverPassed) =>
        /\ runs["text_generation"] = config.MAX_TEXT_ATTEMPTS
        /\ Len(verdicts) = config.MAX_TEXT_ATTEMPTS
        /\ state.text_attempt_count = config.MAX_TEXT_ATTEMPTS
        /\ ~IsNone(first_text)
        /\ state.best_text = first_text

\* Three failed attempts, the last text differing from the first.
C4_Witness ==
    /\ TextLoopLeft
    /\ NeverPassed
    /\ config.MAX_TEXT_ATTEMPTS = MaxAttempts
    /\ state.generated_text # first_text
    /\ state.best_text = first_text

FirstPass(k) == verdicts[k] /\ \A j \in 1..(k - 1) : ~verdicts[j]

\* C5: if the response of text attempt k is the first to carry the pass marker,
\* text_generation has executed exactly k times and never executes again, the
\* router returns "continue" with text_attempt_count = k, and best_text is the
\* text generated on attempt k.
C5_FirstPassEndsLoop ==
    \A k \in 1..Len(verdicts) : FirstPass(k) =>
        /\ k <= config.MAX_TEXT_ATTEMPTS
        /\ runs["text_generation"] = k
        /\ state.text_attempt_count = k
        /\ state.best_text = state.generated_text
        /\ (k = 1 => state.best_text = first_text)
        /\ pc \notin {"text_generation", "text_validation"}
        /\ route.router = "should_retry_text" => route.ret = "continue"

\* The second attempt passed, with a text other than the first.
C5_Witness ==
    /\ verdicts = <<FALSE, TRUE>>
    /\ route.router = "should_retry_text"
    /\ route.ret = "continue"
    /\ state.best_text # first_text

\* C6 (as claimed): a failure of the validation collaborator in a validation
\* stage never aborts the run.
C6_ValidationFailureNeverAborts ==
    ~(pc = "aborted" /\ error.stage \in {"text_validation", "image_validation"})

\* C7 (as claimed): the run does not leave the overlay loop after a rejected
\* overlay attempt while attempts remain: it reaches save_output only with the
\* overlay approved or the maximum of overlay attempts made.
C7_OverlayRetriedBeforeSave ==
    pc = "save_output" =>
        \/ Get(state, "text_validation_result", "rejected") = "approved"
        \/ Get(state, "text_adding_attempt_count", 0) >= config.MAX_TEXT_ADDING_ATTEMPTS

\* C8 (as claimed): save_output runs only once the overlay router has returned
\* "continue" on the result of an overlay validation.
C8_OverlayLoopInGraph ==
    pc = "save_output" =>
        /\ route.router = "should_retry_text_adding"
        /\ route.ret = "continue"

\* C9: if no call raises, the run reaches END, having executed save_output.
C9_Terminates ==
    [](pc # "aborted") => <>(pc = "END" /\ runs["save_output"] = 1)

\* A run ended after both loops used every attempt.
C9_Witness ==
    /\ pc = "END"
    /\ runs["text_generation"] = MaxAttempts
    /\ runs["image_generation"] = MaxAttempts

\* C10 (as claimed): an execution of the image validation stage leaves the
\* validation result the text validation stored unchanged.
C10_ImageValidationKeepsTextResult ==
    [][ verdict'.stage = "image_validation" =>
            /\ state'.validation_passed = state.validation_passed
            /\ state'.validation_feedback = state.validation_feedback ]_vars

\* C11 (as claimed): while a required input file is missing, no stage of the
\* graph has executed, load_pipeline included.
C11_NoStageBeforeMissingInput ==
    (~env.text_exists \/ ~env.image_exists) =>
        \A n \in Stages \ {"load_input"} : runs[n] = 0

\* The stage `node` executes in this step.
Executes(node) == runs'[node] = runs[node] + 1

\* The router evaluated just before this step, and what it returned.
JustReturned(router, ret) == route = [router |-> router, ret |-> ret]

\* C12: the stages of a run execute in the order of the graph: planning once,
\* after load_input and before any text_generation; image_generation only
\* right after the text router returned "continue" or the image router
\* "retry"; segmentation only right after the image router returned
\* "continue"; then the overlay; save_output once, and nothing after it; a
\* run that reaches END has executed save_output.
C12_StageOrder ==
    [][ /\ Executes("planning") =>
               runs["load_input"] = 1 /\ runs["planning"] = 0
        /\ Executes("text_generation") => runs["planning"] = 1
        /\ Executes("image_generation") =>
               \/ JustReturned("should_retry_text", "continue")
               \/ /\ JustReturned("should_retry_image", "retry")
                  /\ runs["image_generation"] > 0
        /\ Executes("segmentation") =>
               /\ JustReturned("should_retry_image", "continue")
               /\ runs["segmentation"] = 0
        /\ Executes("text_adding") =>
               runs["segmentation"] = 1 /\ runs["text_adding"] = 0
        /\ Executes("save_output") =>
               runs["text_adding"] = 1 /\ runs["save_output"] = 0
        /\ runs["save_output"] = 1 => runs' = runs
        /\ pc' = "END" => runs'["save_output"] = 1 ]_vars

\* A run ended after a retry in each loop.
C12_Witness ==
    /\ pc = "END"
    /\ runs["planning"] = 1
    /\ runs["text_generation"] = 2
    /\ runs["image_generation"] = 2
    /\ runs["save_output"] = 1

\* The labels the parsers of the validation stages look for.
Labels ==
    { "VALIDATION:", "LOGO_INTEGRATED:", "TEXT_CORRECT:", "TEXT_CLEAR:",
      "FOUND_TEXT:", "SPECIFIC_FIX:" }

LabelFree(content) == \A i \in 1..Len(content) : UpperTok(content[i]) \notin Labels

\* C13: a validation stage given a response without any label, or an empty
\* one, returns without raising and stores a failed result: not passed (not
\* approved), logo not integrated, text_is_correct and text_is_clear False,
\* found_text and specific_fix None.
C13_UnlabelledResponseFails ==
    (verdict.stage # "none" /\ LabelFree(verdict.content)) =>
        /\ pc = "parsed"
        /\ error = NoError
        /\ verdict.stage = "text_validation" => ~state.validation_passed
        /\ verdict.stage = "image_validation" =>
               /\ ~state.validation_passed
               /\ state.validation_feedback = Some(verdict.content \o REMEDIATION)
        /\ verdict.stage = "overlay_validation" =>
               /\ state.text_validation_result = "rejected"
               /\ ~state.text_is_correct
               /\ ~state.text_is_clear
               /\ IsNone(state.found_text)
               /\ IsNone(state.specific_fix)

\* The overlay validation parsed a response of unlabelled words.
C13_Witness ==
    /\ pc = "parsed"
    /\ verdict.stage = "overlay_validation"
    /\ verdict.content = <<"APPROVED", "YES", "prose">>
    /\ state.text_validation_result = "rejected"

\* How many times pat occurs in s.
Occurrences(s, pat) ==
    Cardinality({i \in 0..(Len(s) - Len(pat)) : SubSeq(s, i + 1, i + Len(pat)) = pat})

HasLogoMarker(content) == Contains(upper(content), LOGO_INTEGRATED_YES)

\* C14: after every image validation, the stored validation_feedback holds
\* the remediation instruction once if the response lacks "LOGO_INTEGRATED:
\* YES" and not at all if it has it, whatever the attempt; validation_passed
\* is the presence of "VALIDATION: PASS" in the response, whatever the logo.
C14_RemediationOnce ==
    verdict.stage = "image_validation" =>
        /\ Occurrences(Val(state.validation_feedback), REMEDIATION)
               = (IF HasLogoMarker(verdict.content) THEN 0 ELSE 1)
        /\ state.validation_passed = HasPassMarker(verdict.content)

\* A second image validation passed on a response without the logo marker.
C14_Witness ==
    /\ verdict.stage = "image_validation"
    /\ runs["image_validation"] = 2
    /\ ~HasLogoMarker(verdict.content)
    /\ state.validation_passed
    /\ Occurrences(Val(state.validation_feedback), REMEDIATION) = 1

\* C15: when the generation call of text_generation_agent raises, the
\* exception leaves the stage and the run: the run is aborted in
\* text_generation, the validation of that attempt has not run, and neither
\* has any stage after the text loop.
C15_GenerationFailureAborts ==
    verdict.stage = "text_generation raised" =>
        /\ pc = "aborted"
        /\ error.stage = "text_generation"
        /\ runs["text_validation"] = runs["text_generation"] - 1
        /\ \A n \in {"image_generation", "image_validation", "segmentation",
                     "text_adding", "save_output"} : runs[n] = 0

\* The generation call failed on the second attempt.
C15_Witness ==
    /\ verdict.stage = "text_generation raised"
    /\ runs["text_generation"] = 2
    /\ runs["text_validation"] = 1
    /\ pc = "aborted"

\* C16: when the initialisation of the image pipeline fails, load_pipeline
\* returns normally with image_pipeline None and every other field as it
\* was, and the graph goes on to load_input.
C16_PipelineFailureTolerated ==
    [][ verdict'.stage = "load_pipeline failed" =>
            /\ pc' = "load_input"
            /\ error' = NoError
            /\ state' = [state EXCEPT !.image_pipeline = None] ]_vars

\* load_input has run after a failed initialisation of the pipeline.
C16_Witness ==
    /\ runs["load_pipeline"] = 1
    /\ runs["load_input"] = 1
    /\ IsNone(state.image_pipeline)
    /\ pc = "planning"

\* C18: the first text_generation that returns sets best_text to its text,
\* and best_text is never None afterwards; from then on best_text changes
\* only in a validate_text whose response passed, and becomes the current
\* generated_text.  The first editor_agent that returns sets best_image to
\* the current image; from then on best_image changes only in an
\* editor_agent whose response passed, and becomes the current image.
C18_BestSetFirstThenOnPass ==
    [][ /\ (Executes("text_generation") /\ runs["text_generation"] = 0
                /\ pc' # "aborted") =>
               /\ ~IsNone(state'.best_text)
               /\ state'.best_text = state'.generated_text
        /\ ~IsNone(state.best_text) => ~IsNone(state'.best_text)
        /\ (IsNone(state.best_text) /\ ~IsNone(state'.best_text)) =>
               Executes("text_generation") /\ runs["text_generation"] = 0
        /\ (~IsNone(state.best_text) /\ state'.best_text # state.best_text) =>
               /\ verdict'.stage = "text_validation"
               /\ verdict'.passed
               /\ state'.best_text = state'.generated_text
        /\ (Executes("image_validation") /\ runs["image_validation"] = 0
                /\ pc' # "aborted") =>
               /\ ~IsNone(state'.best_image)
               /\ state'.best_image = state'.current_image
        /\ state'.best_image # state.best_image =>
               /\ verdict'.stage = "image_validation"
               /\ IsNone(state.best_image) \/ verdict'.passed
               /\ state'.best_image = state'.current_image ]_vars

\* A later text and a later image have replaced the first ones, each on a
\* passed validation.
C18_Witness ==
    /\ pinned.text
    /\ state.best_text # first_text
    /\ pinned.image
    /\ runs["image_validation"] = 2
    /\ state.best_image = Some(Path("image_attempt", 2))

\* C19: text_attempt_count is 0 once load_input has run; a step changes it
\* only by executing text_generation, which adds exactly 1; no other stage
\* and no router lowers, resets or otherwise changes it.
C19_OnlyGenerationCounts ==
    [][ /\ Executes("load_input") /\ pc' # "aborted" =>
               state'.text_attempt_count = 0
        /\ Executes("text_generation") /\ pc' # "aborted" =>
               state'.text_attempt_count = state.text_attempt_count + 1
        /\ state'.text_attempt_count # state.text_attempt_count =>
               /\ Executes("text_generation")
               /\ state'.text_attempt_count = state.text_attempt_count + 1 ]_vars

\* The count of two text attempts, as left to the stages of the image loop.
C19_Witness ==
    /\ state.text_attempt_count = 2
    /\ runs["text_generation"] = 2
    /\ runs["text_validation"] = 2
    /\ runs["image_validation"] = 2

\* C20: an evaluation of should_retry_text, should_retry_image or
\* should_retry_text_adding leaves the dict as it was, keys and values,
\* whatever label it returns.
C20_RoutersLeaveState ==
    [][ pc' = "returned" => state' = state ]_vars

\* The overlay router returned "retry" on a dict without an attempt count,
\* and the dict still has none.
C20_Witness ==
    /\ pc = "returned"
    /\ route = [router |-> "should_retry_text_adding", ret |-> "retry"]
    /\ "text_adding_attempt_count" \notin DOMAIN state

\* The labels that end a text field of the overlay validation response.
FieldLabels == {"FOUND_TEXT:", "SPECIFIC_FIX:", "VALIDATION:"}

\* The tokens of s before its first label, all of s if it has none.
UpToLabel(s) ==
    LET at == {i \in 1..Len(s) : s[i] \in FieldLabels}
    IN IF at = {} THEN s
       ELSE SubSeq(s, 1, (CHOOSE i \in at : \A j \in at : i <= j) - 1)

\* The text that follows `label` in content, up to the next label, trimmed.
FieldText(content, label) ==
    strip(UpToLabel(SubSeq(content, IndexOf(content, label) + 1, Len(content))))

\* C21 (as claimed): found_text and specific_fix are the text that follows
\* their label up to the next label after it, or the end of the response,
\* trimmed, in whatever order the labels appear.
C21_FieldUpToNextLabel ==
    verdict.stage = "overlay_validation" =>
        /\ Contains(verdict.content, <<"FOUND_TEXT:">>) =>
               state.found_text = Some(FieldText(verdict.content, "FOUND_TEXT:"))
        /\ Contains(verdict.content, <<"SPECIFIC_FIX:">>) =>
               state.specific_fix = Some(FieldText(verdict.content, "SPECIFIC_FIX:"))

\* C22 (as claimed): whether a label is detected does not depend on the
\* letter case the response writes it in: every flag and the presence of
\* every text field are those of the upper-cased response.
C22_LookupIgnoresCase ==
    /\ verdict.stage \in {"text_validation", "image_validation"} =>
           state.validation_passed = Contains(upper(verdict.content), VALIDATION_PASS)
    /\ verdict.stage = "overlay_validation" =>
           /\ (state.text_validation_result = "approved")
                  = Contains(upper(verdict.content), VALIDATION_APPROVED)
           /\ state.text_is_correct = Contains(upper(verdict.content), TEXT_CORRECT_YES)
           /\ state.text_is_clear = Contains(upper(verdict.content), TEXT_CLEAR_YES)
           /\ IsNone(state.found_text)
                  = ~Contains(upper(verdict.content), <<"FOUND_TEXT:">>)
           /\ IsNone(state.specific_fix)
                  = ~Contains(upper(verdict.content), <<"SPECIFIC_FIX:">>)

OverlayFields ==
    { "text_validation_result", "text_validation_feedback", "text_is_correct",
      "text_is_clear", "found_text", "specific_fix" }

\* The value of a text field comes from this response: None without the
\* label, a piece of the response with it.
FromResponse(field, label) ==
    IF Contains(verdict.content, <<label>>)
    THEN ~IsNone(field) /\ Contains(verdict.content, Val(field))
    ELSE IsNone(field)

\* C23: after an execution of text_validation_agent on a dict that holds the
\* result of an earlier attempt, each of the six fields of the result comes
\* from this attempt alone: from the response when the call returned, the
\* fixed rejection when it failed; nothing of the earlier result is left.
C23_OverlayResultReplaced ==
    /\ verdict.stage \in {"overlay_validation", "overlay_validation raised"} =>
           OverlayFields \subseteq DOMAIN state
    /\ verdict.stage = "overlay_validation raised" =>
           /\ state.text_validation_result = "rejected"
           /\ state.text_validation_feedback = Some(VALIDATION_ERROR)
           /\ ~state.text_is_correct
           /\ ~state.text_is_clear
           /\ IsNone(state.found_text)
           /\ IsNone(state.specific_fix)
    /\ verdict.stage = "overlay_validation" =>
           /\ state.text_validation_result
                  = (IF verdict.passed THEN "approved" ELSE "rejected")
           /\ state.text_validation_feedback = Some(verdict.content)
           /\ state.text_is_correct = Contains(upper(verdict.content), TEXT_CORRECT_YES)
           /\ state.text_is_clear = Contains(upper(verdict.content), TEXT_CLEAR_YES)
           /\ FromResponse(state.found_text, "FOUND_TEXT:")
           /\ FromResponse(state.specific_fix, "SPECIFIC_FIX:")

\* The call failed on a dict holding an approved result with both texts set.
C23_Witness ==
    /\ verdict.stage = "overlay_validation raised"
    /\ validated_state.text_validation_result = "approved"
    /\ validated_state.found_text = Some(<<"alpha">>)
    /\ state.text_validation_result = "rejected"
    /\ IsNone(state.found_text)
    /\ IsNone(state.specific_fix)
    /\ ~state.text_is_correct

\* C24 (as claimed): when the overlay response lacks "TEXT_CORRECT: YES", the
\* feedback text_validation_agent stores is the response followed by a
\* remediation instruction, appended once.
C24_OverlayRemediationAppended ==
    (verdict.stage = "overlay_validation"
         /\ ~Contains(upper(verdict.content), TEXT_CORRECT_YES)) =>
        LET feedback == Val(state.text_validation_feedback)
            n == Len(verdict.content)
        IN /\ Len(feedback) = n + 1
           /\ SubSeq(feedback, 1, n) = verdict.content

\* C25: the files a run writes have pairwise distinct names, and the file of
\* the i-th execution of text_generation_agent is named by i, the value of
\* text_attempt_count after its increment.
C25_AttemptFilesDistinct ==
    /\ \A i, j \in 1..Len(written) : i # j => written[i] # written[j]
    /\ \A i \in 1..Len(written) :
           written[i][1] = "text_attempt" =>
               /\ written[i] = Path("text_attempt", i)
               /\ i <= state.text_attempt_count

\* A run ended after writing the text of every attempt the maximum allows.
C25_Witness ==
    /\ pc = "END"
    /\ runs["text_generation"] = MaxAttempts
    /\ \A i \in 1..MaxAttempts : written[i] = Path("text_attempt", i)

\* C26: an execution of segmentation_placeholder returns normally and leaves
\* the dict as it was, keys and values.
C26_SegmentationIdentity ==
    [][ Executes("segmentation") =>
            /\ state' = state
            /\ pc' = "text_adding" ]_vars

\* Segmentation has run on a dict whose current image is not the best one.
C26_Witness ==
    /\ runs["segmentation"] = 1
    /\ pc = "text_adding"
    /\ state.current_image # state.best_image

\* C27: whenever a router is about to be evaluated, validation_passed is the
\* verdict of the validation of its own loop in the same iteration: of
\* validate_text for should_retry_text, of editor_agent for
\* should_retry_image; and the image router returns "continue" before the
\* attempts are used up only if an image validation passed.
C27_FlagFromOwnLoop ==
    /\ pc = "should_retry_text" =>
           /\ verdict.stage = "text_validation"
           /\ state.validation_passed = verdict.passed
    /\ pc = "should_retry_image" =>
           /\ verdict.stage = "image_validation"
           /\ state.validation_passed = verdict.passed
    /\ (JustReturned("should_retry_image", "continue")
            /\ state.image_attempt_count < config.MAX_IMAGE_ATTEMPTS) =>
           pinned.image

\* The image router is about to read a failed flag after a text that passed.
C27_Witness ==
    /\ pc = "should_retry_image"
    /\ pinned.text
    /\ ~verdict.passed
    /\ ~state.validation_passed
    /\ state.image_attempt_count < config.MAX_IMAGE_ATTEMPTS

\* The text of the latest text attempt.
LatestText == state.generated_text

\* C28 (as claimed): in a run that has executed save_output, at most one text
\* attempt passed and it is the last one; the text written is best_text,
\* which is the latest text if that attempt passed and the text of attempt 1
\* otherwise.
C28_FinalTextIsBest ==
    pc = "END" =>
        /\ \A i \in 1..(Len(verdicts) - 1) : ~verdicts[i]
        /\ output_text = state.best_text
        /\ state.best_text = (IF pinned.text THEN LatestText ELSE first_text)

\* The text of an Optional[str], "" for None.
TextOf(o) == IF IsNone(o) THEN <<>> ELSE Val(o)

\* C29: the prompt of text attempt 1 carries no feedback; the prompt of a
\* later attempt carries the feedback the text validation of the attempt
\* before it stored, which the router left untouched; no image validation
\* has run when a text prompt is built.
C29_PromptFeedback ==
    [][ /\ verdict'.stage = "text_validation" =>
               state'.validation_feedback = Some(verdict'.content)
        /\ pc = "should_retry_text" =>
               state'.validation_feedback = state.validation_feedback
        /\ Executes("text_generation") =>
               /\ runs["image_validation"] = 0
               /\ runs["text_validation"] = runs["text_generation"]
               /\ runs["text_generation"] > 0 => JustReturned("should_retry_text", "retry")
               /\ verdict'.stage = "text_generation" =>
                      verdict'.content = (IF runs["text_generation"] = 0 THEN <<>>
                                          ELSE TextOf(state.validation_feedback)) ]_vars

\* The prompt of the second text attempt carries the feedback of the first.
C29_Witness ==
    /\ verdict.stage = "text_generation"
    /\ runs["text_generation"] = 2
    /\ verdict.content = <<"VALIDATION:", "FAIL", "FEEDBACK:", "shorten">>
    /\ state.validation_feedback = Some(verdict.content)

\* C30: the overlay validation stores "approved" exactly when the response
\* holds "VALIDATION: APPROVED", whatever TEXT_CORRECT and TEXT_CLEAR say, and
\* on an approved result should_retry_text_adding returns "continue",
\* attempts left or not.
C30_ApprovedByMarkerAlone ==
    /\ verdict.stage = "overlay_validation" =>
           /\ (state.text_validation_result = "approved")
                  = Contains(upper(verdict.content), VALIDATION_APPROVED)
           /\ state.text_is_correct = Contains(upper(verdict.content), TEXT_CORRECT_YES)
           /\ state.text_is_clear = Contains(upper(verdict.content), TEXT_CLEAR_YES)
    /\ (route.router = "should_retry_text_adding"
            /\ Get(state, "text_validation_result", "rejected") = "approved") =>
           route.ret = "continue"

\* The router returned "continue" on an approved result whose text was found
\* neither correct nor clear, with attempts left.
C30_Witness ==
    /\ JustReturned("should_retry_text_adding", "continue")
    /\ state.text_validation_result = "approved"
    /\ ~state.text_is_correct
    /\ ~state.text_is_clear
    /\ state.text_adding_attempt_count < config.MAX_TEXT_ADDING_ATTEMPTS

====
